---- MODULE Spec2Model ----
(***************************************************************************)
(* Model of src/src/index.ts: the git-user / npm-registry profile switcher *)
(* (module state gitUsers, the globalState record, the external git and    *)
(* npm configuration, the quick pick, and the asynchronous handlers whose  *)
(* only suspension points are external commands and input prompts).        *)
(*                                                                         *)
(* Strings are sequences of one-character strings, so that trim() and the  *)
(* isUrl regular expression are computed, not assumed.                     *)
(***************************************************************************)
EXTENDS Integers, Sequences, FiniteSets, TLC

(* ------------------------------ bounds -------------------------------- *)
\* user-triggered events (commands, picker events, window reloads) per run
MaxOps == 2
\* asynchronous handlers that may be suspended at the same time
MaxTasks == 2
\* picker rows the user acts on: the first MaxRow rows and the last one
MaxRow == 2
\* picker events (open, accept, delete) per run when the picker is alone
MaxPickerOps == 3
\* length of the arrays an arbitrary persisted value is drawn from
MaxStored == 2

(* ------------------------------ strings ------------------------------- *)
Empty == <<>>
\* JavaScript undefined in a string-typed position (an absent registry)
Undefined == <<"undefined">>
\* the sentinel execPromise resolves to, index.ts:13-14
Unknown == <<"unknown">>
Whitespace == {" ", "\n"}

NameA == <<"A">>
NamePadded == <<" ", "A">>
EmailA == <<"a", "@", "x">>
UrlReg == <<"h", "t", "t", "p", "s", ":", "/", "/", "r">>
AliasReg == <<"t", "b">>
\* a registry text that is a scheme and nothing more
SchemeOnly == <<"h", "t", "t", "p", ":", "/", "/">>
AliasTarget == <<"h", "t", "t", "p", ":", "/", "/", "t">>
DefaultReg == <<"h", "t", "t", "p", "s", ":", "/", "/", "d">>

\* JavaScript truthiness of a string | undefined value (if (!name), if (registry))
Truthy(s) == s /= Empty /\ s /= Undefined

RECURSIVE TrimStart(_)
TrimStart(s) ==
  IF s /= <<>> /\ Head(s) \in Whitespace THEN TrimStart(Tail(s)) ELSE s

RECURSIVE TrimEnd(_)
TrimEnd(s) ==
  IF s /= <<>> /\ s[Len(s)] \in Whitespace
    THEN TrimEnd(SubSeq(s, 1, Len(s) - 1))
    ELSE s

\* String.prototype.trim
Trim(s) == TrimEnd(TrimStart(s))

StartsWith(s, p) == Len(s) >= Len(p) /\ SubSeq(s, 1, Len(p)) = p

\* a mutant of isUrl: the prefix alone
isUrl_prefixOnly(str) ==
  \E p \in {<<"h", "t", "t", "p", ":", "/", "/">>,
            <<"h", "t", "t", "p", "s", ":", "/", "/">>} : StartsWith(str, p)

\* /^https?:\/\/.+/ : "http", an optional "s", "://", then at least one
\* character that is not a line terminator
isUrl(str) ==
  \E p \in {<<"h", "t", "t", "p", ":", "/", "/">>,
            <<"h", "t", "t", "p", "s", ":", "/", "/">>} :
     /\ StartsWith(str, p)
     /\ Len(str) > Len(p)
     /\ str[Len(p) + 1] /= "\n"

\* execPromise's callback: the sentinel on error or on blank output
execPromise(err, stdout) ==
  IF err THEN Unknown
  ELSE IF Trim(stdout) = Empty THEN Unknown ELSE Trim(stdout)

\* "git config --global <key>" / "npm config get registry" through
\* execPromise: the command prints the value and a newline, and exits with an
\* error when the key is unset
ConfigGet(value) == execPromise(value = Empty, value \o <<"\n">>)

(* ------------------------------ profiles ------------------------------ *)
Profile(n, e, r) == [name |-> n, email |-> e, registry |-> r]

SameUser(u, n, e) == u.name = n /\ u.email = e

\* gitUsers.find(u => u.name === name && u.email === email) is defined
hasUser(users, n, e) == \E i \in 1..Len(users) : SameUser(users[i], n, e)

\* the profile find() returns: the first match
findUser(users, n, e) ==
  users[CHOOSE i \in 1..Len(users) :
          /\ SameUser(users[i], n, e)
          /\ \A j \in 1..(i - 1) : ~SameUser(users[j], n, e)]

\* the cap of gitUsers.slice(0, 10)
MaxUsers == 10

\* a mutant of slice used by the checks below
slice_oneMore(users, n) ==
  SubSeq(users, 1, IF Len(users) < n + 1 THEN Len(users) ELSE n + 1)

\* Array.prototype.slice(0, n)
slice(users, n) == SubSeq(users, 1, IF Len(users) < n THEN Len(users) ELSE n)

\* mutants of upsert used by the checks below
upsert_noDedupe(users, n, e, r) == slice(<<Profile(n, e, r)>> \o users, MaxUsers)

upsert_overwrite(users, n, e, r) ==
  IF ~hasUser(users, n, e)
    THEN slice(<<Profile(n, e, r)>> \o users, MaxUsers)
    ELSE [i \in 1..Len(users) |->
            IF SameUser(users[i], n, e) THEN Profile(n, e, r) ELSE users[i]]

upsert_promote(users, n, e, r) ==
  slice(<<Profile(n, e, r)>>
          \o SelectSeq(users, LAMBDA u : ~SameUser(u, n, e)), MaxUsers)

\* the list part of setGitUserInfo: insert at the front unless present, cap
upsert(users, n, e, r) ==
  IF ~hasUser(users, n, e)
    THEN slice(<<Profile(n, e, r)>> \o users, MaxUsers)
    ELSE users

\* a mutant of filterOut: the predicate of filter() inverted
filterOut_inverted(users, n, e) == SelectSeq(users, LAMBDA u : SameUser(u, n, e))

\* gitUsers.filter(u => !(u.name === n && u.email === e))
RECURSIVE filterOut(_, _, _)
filterOut(users, n, e) ==
  IF users = <<>> THEN <<>>
  ELSE IF SameUser(Head(users), n, e)
         THEN filterOut(Tail(users), n, e)
         ELSE <<Head(users)>> \o filterOut(Tail(users), n, e)

(* --------------------------- persisted record ------------------------- *)
\* one stored object: JSON drops a property whose value is undefined
toStored(u) ==
  IF u.registry = Undefined
    THEN [name |-> u.name, email |-> u.email]
    ELSE [name |-> u.name, email |-> u.email, registry |-> u.registry]

\* a stored object as the code reads it: a property that is missing reads
\* as undefined
fromStored(o) ==
  Profile(IF "name" \in DOMAIN o THEN o.name ELSE Undefined,
          IF "email" \in DOMAIN o THEN o.email ELSE Undefined,
          IF "registry" \in DOMAIN o THEN o.registry ELSE Undefined)

\* the value globalState holds under STORAGE_KEY: absent (get() returns
\* undefined), or a value that is an array or not, with its length and
\* elements
NoRecord == [present |-> FALSE, array |-> FALSE, value |-> <<>>]
Record(users) ==
  [present |-> TRUE, array |-> TRUE,
   value |-> [i \in 1..Len(users) |-> toStored(users[i])]]

\* loadGitUsers: stored && Array.isArray(stored) && stored.length > 0 ?
\* stored : [] ; the elements are taken as they are
loadGitUsers(stored) ==
  IF stored.present /\ stored.array /\ Len(stored.value) > 0
    THEN [i \in 1..Len(stored.value) |-> fromStored(stored.value[i])]
    ELSE <<>>

(* ------------------------------- state -------------------------------- *)
VARIABLES
  gitUsers,     \* the module's in-memory profile list
  contextRef,   \* TRUE once loadGitUsers has kept the extension context
  stored,       \* globalState's value under STORAGE_KEY
  gitName,      \* git's global user.name (Empty: unset)
  gitEmail,     \* git's global user.email (Empty: unset)
  npmRegistry,  \* npm's configured registry
  statusBar,    \* the name and registry shown in statusBar.text
  quickPick,    \* the picker openProject created last
  tasks,        \* the suspended asynchronous handlers
  message,      \* the information or warning message the last step showed
  ops           \* user-triggered events so far

vars == <<gitUsers, contextRef, stored, gitName, gitEmail, npmRegistry,
          statusBar, quickPick, tasks, message, ops>>

Slots == 1..MaxTasks

\* where a handler is suspended:
\*   p_name, p_email, p_reg   the three input boxes of customSetGitUserInfo
\*   s_name, s_email, s_reg   the commands of setGitUserInfo / setNpmRegistry
\*   q_name, q_email, q_reg   the queries of getGitUserInfo, getNpmRegistry
PromptPcs == {"p_name", "p_email", "p_reg"}
ApplyPcs == {"s_name", "s_email", "s_reg"}
QueryPcs == {"q_name", "q_email", "q_reg"}

IdleTask ==
  [kind |-> "idle", pc |-> "idle", name |-> Empty, email |-> Empty,
   registry |-> Undefined, qname |-> Empty, qemail |-> Empty, own |-> FALSE,
   cmd |-> "none"]

\* a mutant of NewTask: the refresh handler enters setGitUserInfo
NewTask_refreshApplies(kind, pc, own) ==
  [IdleTask EXCEPT !.kind = kind, !.own = own,
                   !.pc = IF kind = "refresh" THEN "s_name" ELSE pc]

\* own: the handler belongs to the picker that is showing; cmd: the registry
\* command the handler has issued
NewTask(kind, pc, own) == [IdleTask EXCEPT !.kind = kind, !.pc = pc, !.own = own]

Busy(t) == t.kind /= "idle"

NoMessage == [kind |-> "none", name |-> Empty, email |-> Empty, registry |-> Undefined]
Message(kind, n, e, r) == [kind |-> kind, name |-> n, email |-> e, registry |-> r]

HiddenPick ==
  [open |-> FALSE, user |-> [name |-> Empty, email |-> Empty], items |-> <<>>]

\* the commands are registered once activate's updateStatusBar has returned
Registered == contextRef /\ \A i \in Slots : tasks[i].kind /= "activate"

(* --------------------------- initial states --------------------------- *)
Digits == <<"0", "1", "2", "3", "4", "5", "6", "7", "8", "9">>

\* a record an earlier session left behind: MaxUsers distinct profiles
FullList ==
  [i \in 1..MaxUsers |->
     Profile(<<"u", Digits[i]>>, <<"m", Digits[i]>>,
             IF i = 1 THEN UrlReg
             ELSE IF i = 2 THEN AliasReg
             ELSE IF i = MaxUsers THEN SchemeOnly
             ELSE Undefined)]

Init ==
  /\ gitUsers = <<>>
  /\ contextRef = FALSE
  /\ \/ /\ stored = NoRecord
        /\ gitName = Empty
        /\ gitEmail = Empty
     \/ /\ stored = Record(FullList)
        /\ gitName = FullList[1].name
        /\ gitEmail = FullList[1].email
  /\ npmRegistry = DefaultReg
  /\ statusBar = [name |-> Empty, registry |-> Empty]
  /\ quickPick = HiddenPick
  /\ tasks = [i \in Slots |-> IdleTask]
  /\ message = NoMessage
  /\ ops = 0

(* ------------------------------ helpers ------------------------------- *)
\* a mutant of saveGitUsers: the write-back left out
saveGitUsers_skipped(users) == stored

\* saveGitUsers: the whole list, when the context is known
saveGitUsers(users) == IF contextRef THEN Record(users) ELSE stored

FreeSlots == {i \in Slots : ~Busy(tasks[i])}
FreeSlot == CHOOSE i \in FreeSlots : \A j \in FreeSlots : i <= j

\* mutants of afterPrompt: the duplicate check, or the check of the email
\* prompt, left out
afterPrompt_noDupCheck(t, input, users) ==
  IF t.pc = "p_name" THEN
    [task |-> [t EXCEPT !.name = input,
                        !.pc = IF Truthy(input) THEN "p_email" ELSE "q_name"],
     warn |-> FALSE]
  ELSE IF t.pc = "p_email" THEN
    [task |-> [t EXCEPT !.email = input,
                        !.pc = IF Truthy(input) THEN "p_reg" ELSE "q_name"],
     warn |-> FALSE]
  ELSE
    [task |-> [t EXCEPT !.registry = IF Truthy(input) THEN input ELSE Undefined,
                        !.pc = "s_name"],
     warn |-> FALSE]

afterPrompt_noEmailCheck(t, input, users) ==
  IF t.pc = "p_name" THEN
    [task |-> [t EXCEPT !.name = input,
                        !.pc = IF Truthy(input) THEN "p_email" ELSE "q_name"],
     warn |-> FALSE]
  ELSE IF t.pc = "p_email" THEN
    [task |-> [t EXCEPT !.email = input, !.pc = "p_reg"], warn |-> FALSE]
  ELSE IF hasUser(users, t.name, t.email) THEN
    [task |-> [t EXCEPT !.pc = "q_name"], warn |-> TRUE]
  ELSE
    [task |-> [t EXCEPT !.registry = IF Truthy(input) THEN input ELSE Undefined,
                        !.pc = "s_name"],
     warn |-> FALSE]

\* customSetGitUserInfo resumed with the text of its pending input box; users
\* is the list at that moment.  Yields the handler's next record and whether
\* the duplicate warning is shown.
afterPrompt(t, input, users) ==
  IF t.pc = "p_name" THEN
    [task |-> [t EXCEPT !.name = input,
                        !.pc = IF Truthy(input) THEN "p_email" ELSE "q_name"],
     warn |-> FALSE]
  ELSE IF t.pc = "p_email" THEN
    [task |-> [t EXCEPT !.email = input,
                        !.pc = IF Truthy(input) THEN "p_reg" ELSE "q_name"],
     warn |-> FALSE]
  ELSE IF hasUser(users, t.name, t.email) THEN
    [task |-> [t EXCEPT !.pc = "q_name"], warn |-> TRUE]
  ELSE
    [task |-> [t EXCEPT !.registry = IF Truthy(input) THEN input ELSE Undefined,
                        !.pc = "s_name"],
     warn |-> FALSE]

\* an input box that is replaced by another quick input resolves to undefined,
\* and a picker that is replaced or hidden takes no further part
Dismissed(t) ==
  IF t.pc \in PromptPcs
    THEN [afterPrompt(t, Undefined, gitUsers).task EXCEPT !.own = FALSE]
    ELSE [t EXCEPT !.own = FALSE]
DismissWarns == \E i \in Slots : /\ tasks[i].pc \in PromptPcs
                                 /\ afterPrompt(tasks[i], Undefined, gitUsers).warn
DismissMessage ==
  IF DismissWarns
    THEN LET i == CHOOSE j \in Slots : tasks[j].pc \in PromptPcs
         IN Message("exists", tasks[i].name, tasks[i].email, Undefined)
    ELSE NoMessage

\* a new handler starts in the first free slot
Started(rec) == [tasks EXCEPT ![FreeSlot] = rec]

\* the same, when the new handler opens an input box at once
StartedWithPrompt(rec) ==
  [i \in Slots |-> IF i = FreeSlot THEN rec ELSE Dismissed(tasks[i])]

CanStart == Registered /\ FreeSlots /= {}

(* ------------------------- inputs of the model ------------------------ *)
\* texts typed into the input boxes (Empty: left empty or cancelled)
InputNames == {Empty, NameA, NamePadded}
InputEmails == {Empty, EmailA}
InputRegistries == {Empty, AliasReg}

\* the rows of the picker the user selects or deletes
PickRows == {k \in 1..Len(quickPick.items) :
               k <= MaxRow \/ k = Len(quickPick.items)}

\* the aliases nrm knows, with the registry each one selects
KnownAlias(r) == r = AliasReg

(* ------------------------------ activate ------------------------------ *)
\* activate up to its await: loadGitUsers, then updateStatusBar is entered
Activate ==
  /\ ~contextRef
  /\ contextRef' = TRUE
  /\ gitUsers' = loadGitUsers(stored)
  /\ tasks' = Started(NewTask("activate", "q_name", FALSE))
  /\ message' = NoMessage
  /\ UNCHANGED <<stored, gitName, gitEmail, npmRegistry, statusBar, quickPick,
                 ops>>

\* the window is reloaded: the module state is gone, the externals stay
Deactivate ==
  /\ Registered
  /\ \A i \in Slots : ~Busy(tasks[i])
  /\ contextRef' = FALSE
  /\ gitUsers' = <<>>
  /\ statusBar' = [name |-> Empty, registry |-> Empty]
  /\ quickPick' = HiddenPick
  /\ message' = NoMessage
  /\ ops' = ops + 1
  /\ UNCHANGED <<stored, gitName, gitEmail, npmRegistry, tasks>>

(* --------------------------- user's commands -------------------------- *)
\* command openInGitHub.openProject is invoked: getGitUserInfo is entered
OpenProject ==
  /\ CanStart
  /\ tasks' = Started(NewTask("open", "q_name", FALSE))
  /\ ops' = ops + 1
  /\ message' = NoMessage
  /\ UNCHANGED <<gitUsers, contextRef, stored, gitName, gitEmail, npmRegistry,
                 statusBar, quickPick>>

\* command openInGitHub.configureUser: customSetGitUserInfo shows its first
\* input box, which takes the place of any quick input that is showing
ConfigureUser ==
  /\ CanStart
  /\ tasks' = StartedWithPrompt(NewTask("configure", "p_name", FALSE))
  /\ quickPick' = HiddenPick
  /\ message' = DismissMessage
  /\ ops' = ops + 1
  /\ UNCHANGED <<gitUsers, contextRef, stored, gitName, gitEmail, npmRegistry,
                 statusBar>>

(* ---------------------------- picker events --------------------------- *)
\* a mutant of isCurrent: a profile with a stored registry is current only
\* when no registry is stored for it
isCurrent_registry(u, user) ==
  u.name = user.name /\ u.email = user.email /\ ~Truthy(u.registry)

\* isCurrent of a picker row, against the identity openProject queried
isCurrent(u, user) == u.name = user.name /\ u.email = user.email

\* the rows openProject builds from gitUsers: each carries its profile, is
\* picked when current, and has the delete button when not
picks(users, user) ==
  [k \in 1..Len(users) |->
     [user |-> users[k],
      picked |-> isCurrent(users[k], user),
      buttons |-> IF isCurrent(users[k], user) THEN {} ELSE {"delete"}]]

\* onDidTriggerButton(addButton)
PickerAdd ==
  /\ CanStart
  /\ quickPick.open
  /\ tasks' = StartedWithPrompt(NewTask("add", "p_name", FALSE))
  /\ quickPick' = HiddenPick
  /\ message' = DismissMessage
  /\ ops' = ops + 1
  /\ UNCHANGED <<gitUsers, contextRef, stored, gitName, gitEmail, npmRegistry,
                 statusBar>>

\* onDidTriggerButton(refreshButton)
PickerRefresh ==
  /\ CanStart
  /\ quickPick.open
  /\ tasks' = Started(NewTask("refresh", "q_name", TRUE))
  /\ ops' = ops + 1
  /\ message' = NoMessage
  /\ UNCHANGED <<gitUsers, contextRef, stored, gitName, gitEmail, npmRegistry,
                 statusBar, quickPick>>

\* onDidTriggerItemButton on row k: only rows that are not current carry the
\* delete button; the handler runs to its end without suspending
PickerDelete(k) ==
  LET u == quickPick.items[k].user IN
  /\ Registered
  /\ quickPick.open
  /\ "delete" \in quickPick.items[k].buttons
  /\ u.name /= quickPick.user.name \/ u.email /= quickPick.user.email
  /\ gitUsers' = filterOut(gitUsers, u.name, u.email)
  /\ stored' = saveGitUsers(gitUsers')
  /\ message' = Message("deleted", u.name, u.email, Undefined)
  /\ quickPick' = [quickPick EXCEPT !.items = picks(gitUsers', quickPick.user)]
  /\ ops' = ops + 1
  /\ UNCHANGED <<contextRef, gitName, gitEmail, npmRegistry, statusBar, tasks>>

\* onDidAccept with row k selected: setGitUserInfo is entered with the row's
\* stored values and its first command is started
PickerAccept(k) ==
  LET u == quickPick.items[k].user IN
  /\ CanStart
  /\ quickPick.open
  /\ tasks' = Started([NewTask("accept", "s_name", TRUE)
                         EXCEPT !.name = u.name, !.email = u.email,
                                !.registry = u.registry])
  /\ ops' = ops + 1
  /\ message' = NoMessage
  /\ UNCHANGED <<gitUsers, contextRef, stored, gitName, gitEmail, npmRegistry,
                 statusBar, quickPick>>

\* onDidAccept with nothing selected: the picker is hidden
PickerAcceptNone ==
  /\ Registered
  /\ quickPick.open
  /\ quickPick' = HiddenPick
  /\ tasks' = [j \in Slots |-> [tasks[j] EXCEPT !.own = FALSE]]
  /\ ops' = ops + 1
  /\ message' = NoMessage
  /\ UNCHANGED <<gitUsers, contextRef, stored, gitName, gitEmail, npmRegistry,
                 statusBar>>

(* ------------------------ customSetGitUserInfo ------------------------ *)
\* the pending input box of handler i is answered with input
Prompt(i, input) ==
  LET r == afterPrompt(tasks[i], input, gitUsers) IN
  /\ tasks[i].pc \in PromptPcs
  /\ tasks' = [tasks EXCEPT ![i] = r.task]
  /\ message' = IF r.warn
                      THEN Message("exists", tasks[i].name, tasks[i].email, Undefined)
                      ELSE NoMessage
  /\ UNCHANGED <<gitUsers, contextRef, stored, gitName, gitEmail, npmRegistry,
                 statusBar, quickPick, ops>>

PromptName(i) ==
  /\ tasks[i].pc = "p_name"
  /\ \E input \in InputNames : Prompt(i, input)

PromptEmail(i) ==
  /\ tasks[i].pc = "p_email"
  /\ \E input \in InputEmails : Prompt(i, input)

PromptRegistry(i) ==
  /\ tasks[i].pc = "p_reg"
  /\ \E input \in InputRegistries : Prompt(i, input)

(* --------------------------- setGitUserInfo --------------------------- *)
\* mutants of afterExec: the handler gives up when the command failed; the
\* set-name callback goes past the set-email command
afterExec_stopOnError(err, next) == IF err THEN "failed" ELSE next

afterExec_skipEmail(err, next) == IF next = "s_email" THEN "s_reg" ELSE next

\* exec's callbacks in setGitUserInfo and setNpmRegistry take no error
\* argument: the handler goes on to next whether the command failed or not
afterExec(err, next) == next

\* the tail of setGitUserInfo once its last command has called back: the
\* find / unshift / slice / save block and the "switched" message
SwitchedMessage(t) == Message("switched", t.name, t.email, t.registry)

FinishApply(i) ==
  /\ gitUsers' = upsert(gitUsers, tasks[i].name, tasks[i].email, tasks[i].registry)
  /\ stored' = IF ~hasUser(gitUsers, tasks[i].name, tasks[i].email)
                 THEN saveGitUsers(gitUsers')
                 ELSE stored
  /\ message' = SwitchedMessage(tasks[i])
  /\ tasks' = [tasks EXCEPT ![i].pc = "q_name"]

\* the command setNpmRegistry runs for a registry text
registryCommand(registry) ==
  IF isUrl(registry) THEN "npm config set registry" ELSE "nrm use"

\* git config --global user.name "<name>" has run (ok) or failed, as a
\* read-only configuration file makes it fail
SetName(i, outcomes) ==
  /\ tasks[i].pc = "s_name"
  /\ \E ok \in outcomes :
       /\ gitName' = IF ok THEN tasks[i].name ELSE gitName
       /\ tasks' = [tasks EXCEPT ![i].pc = afterExec(~ok, "s_email")]
  /\ message' = NoMessage
  /\ UNCHANGED <<gitUsers, contextRef, stored, gitEmail, npmRegistry,
                 statusBar, quickPick, ops>>

\* git config --global user.email "<email>" has run or failed; without a
\* registry the handler runs on through the store block
SetEmail(i, outcomes) ==
  /\ tasks[i].pc = "s_email"
  /\ \E ok \in outcomes :
       LET next == afterExec(~ok, IF Truthy(tasks[i].registry)
                                    THEN "s_reg" ELSE "store")
       IN
       /\ gitEmail' = IF ok THEN tasks[i].email ELSE gitEmail
       /\ IF next = "store"
            THEN FinishApply(i)
            ELSE /\ tasks' = [tasks EXCEPT
                                ![i].pc = next,
                                ![i].cmd = registryCommand(tasks[i].registry)]
                 /\ message' = NoMessage
                 /\ UNCHANGED <<gitUsers, stored>>
  /\ UNCHANGED <<contextRef, gitName, npmRegistry, statusBar, quickPick, ops>>

\* setNpmRegistry: npm config set registry "<url>" for a URL, nrm use
\* "<alias>" otherwise, has run or failed; then the store block
SetRegistry(i, outcomes) ==
  /\ tasks[i].pc = "s_reg"
  /\ \E ran \in outcomes :
       LET r == tasks[i].registry
           direct == registryCommand(r) = "npm config set registry"
           ok == ran /\ (direct \/ KnownAlias(r))
           next == afterExec(~ok, "store")
       IN
       /\ npmRegistry' = IF ~ok THEN npmRegistry
                         ELSE IF direct THEN r ELSE AliasTarget
       /\ IF next = "store"
            THEN FinishApply(i)
            ELSE /\ tasks' = [tasks EXCEPT ![i].pc = next]
                 /\ message' = NoMessage
                 /\ UNCHANGED <<gitUsers, stored>>
  /\ UNCHANGED <<contextRef, gitName, gitEmail, statusBar, quickPick, ops>>

(* ------------------- getGitUserInfo, getNpmRegistry ------------------- *)
\* git config --global user.name has answered; the arguments of the
\* setGitUserInfo call that came before are out of scope from here on
QueryName(i) ==
  /\ tasks[i].pc = "q_name"
  /\ tasks' = [tasks EXCEPT ![i] =
                 [NewTask(tasks[i].kind, "q_email", tasks[i].own)
                    EXCEPT !.qname = ConfigGet(gitName)]]
  /\ message' = NoMessage
  /\ UNCHANGED <<gitUsers, contextRef, stored, gitName, gitEmail, npmRegistry,
                 statusBar, quickPick, ops>>

\* git config --global user.email has answered
QueryEmail(i) ==
  /\ tasks[i].pc = "q_email"
  /\ tasks' = [tasks EXCEPT ![i].qemail = ConfigGet(gitEmail),
                            ![i].pc = "q_reg"]
  /\ message' = NoMessage
  /\ UNCHANGED <<gitUsers, contextRef, stored, gitName, gitEmail, npmRegistry,
                 statusBar, quickPick, ops>>

\* a mutant of registryDisplay: the live registry whatever is stored
registryDisplay_liveOnly(users, user, registry) == registry

\* the text updateStatusBar composes
registryDisplay(users, user, registry) ==
  IF hasUser(users, user.name, user.email)
     /\ Truthy(findUser(users, user.name, user.email).registry)
    THEN findUser(users, user.name, user.email).registry
    ELSE registry

\* npm config get registry has answered inside openProject: the picker is
\* built from gitUsers and shown, taking the place of a pending input box
ShowPicker(i) ==
  /\ tasks[i].kind = "open"
  /\ tasks[i].pc = "q_reg"
  /\ LET user == [name |-> tasks[i].qname, email |-> tasks[i].qemail]
     IN quickPick' = [open |-> TRUE, user |-> user,
                      items |-> picks(gitUsers, user)]
  /\ tasks' = [j \in Slots |-> IF j = i THEN IdleTask ELSE Dismissed(tasks[j])]
  /\ message' = DismissMessage
  /\ UNCHANGED <<gitUsers, contextRef, stored, gitName, gitEmail, npmRegistry,
                 statusBar, ops>>

\* npm config get registry has answered inside updateStatusBar: the status
\* text is set and the calling handler runs to its end
UpdateStatusBar(i) ==
  /\ tasks[i].kind \in {"activate", "add", "refresh", "accept", "configure"}
  /\ tasks[i].pc = "q_reg"
  /\ LET user == [name |-> tasks[i].qname, email |-> tasks[i].qemail]
         registry == ConfigGet(npmRegistry)
     IN statusBar' = [name |-> user.name,
                      registry |-> registryDisplay(gitUsers, user, registry)]
  /\ message' = IF tasks[i].kind = "refresh"
                      THEN Message("refreshed", Empty, Empty, Undefined)
                      ELSE NoMessage
  /\ quickPick' = IF tasks[i].own THEN HiddenPick ELSE quickPick
  /\ tasks' = [j \in Slots |->
                 IF j = i THEN IdleTask
                 ELSE IF tasks[i].own THEN [tasks[j] EXCEPT !.own = FALSE]
                 ELSE tasks[j]]
  /\ UNCHANGED <<gitUsers, contextRef, stored, gitName, gitEmail, npmRegistry, ops>>

(* ---------------------------- specification --------------------------- *)
\* at most MaxOps user-triggered events are taken
Next ==
  \/ Activate
  \/ ops < MaxOps /\ Deactivate
  \/ ops < MaxOps /\ OpenProject
  \/ ops < MaxOps /\ ConfigureUser
  \/ ops < MaxOps /\ PickerAdd
  \/ ops < MaxOps /\ PickerRefresh
  \/ \E k \in PickRows : ops < MaxOps /\ PickerDelete(k)
  \/ \E k \in PickRows : ops < MaxOps /\ PickerAccept(k)
  \/ ops < MaxOps /\ PickerAcceptNone
  \/ \E i \in Slots : PromptName(i)
  \/ \E i \in Slots : PromptEmail(i)
  \/ \E i \in Slots : PromptRegistry(i)
  \/ \E i \in Slots : SetName(i, BOOLEAN)
  \/ \E i \in Slots : SetEmail(i, BOOLEAN)
  \/ \E i \in Slots : SetRegistry(i, BOOLEAN)
  \/ \E i \in Slots : QueryName(i)
  \/ \E i \in Slots : QueryEmail(i)
  \/ \E i \in Slots : ShowPicker(i)
  \/ \E i \in Slots : UpdateStatusBar(i)

Spec == Init /\ [][Next]_vars

\* The same handlers when every command succeeds and no two user actions
\* overlap: a new action is taken only when no handler is suspended.
AllIdle == \A i \in Slots : ~Busy(tasks[i])

SerialEvent == AllIdle /\ ops < MaxOps

NextSerial ==
  \/ Activate
  \/ SerialEvent /\ Deactivate
  \/ SerialEvent /\ OpenProject
  \/ SerialEvent /\ ConfigureUser
  \/ SerialEvent /\ PickerAdd
  \/ SerialEvent /\ PickerRefresh
  \/ \E k \in PickRows : SerialEvent /\ PickerDelete(k)
  \/ \E k \in PickRows : SerialEvent /\ PickerAccept(k)
  \/ SerialEvent /\ PickerAcceptNone
  \/ \E i \in Slots : PromptName(i)
  \/ \E i \in Slots : PromptEmail(i)
  \/ \E i \in Slots : PromptRegistry(i)
  \/ \E i \in Slots : SetName(i, {TRUE})
  \/ \E i \in Slots : SetEmail(i, {TRUE})
  \/ \E i \in Slots : SetRegistry(i, {TRUE})
  \/ \E i \in Slots : QueryName(i)
  \/ \E i \in Slots : QueryEmail(i)
  \/ \E i \in Slots : ShowPicker(i)
  \/ \E i \in Slots : UpdateStatusBar(i)

SpecSerial == Init /\ [][NextSerial]_vars

(* ============================ properties ============================== *)
\* handler i leaves setGitUserInfo in this step: its last command has called
\* back and the store block and the message have run
ApplyDone(i) == tasks[i].pc \in ApplyPcs /\ tasks'[i].pc = "q_name"

\* handler i has just left setGitUserInfo: the step that led here showed its
\* "switched" message
JustApplied(i) ==
  /\ tasks[i].pc = "q_name"
  /\ tasks[i].kind \in {"accept", "add", "configure"}
  /\ message = SwitchedMessage(tasks[i])

NoDuplicates(users) ==
  \A i, j \in 1..Len(users) :
    i /= j => ~SameUser(users[i], users[j].name, users[j].email)

\* C1: whatever switches, additions and deletions have happened, the profile
\* list, in memory and as persisted, has at most 10 entries and no two
\* entries with the same (name, email).
C1_BoundedUnique ==
  /\ Len(gitUsers) <= MaxUsers
  /\ NoDuplicates(gitUsers)
  /\ Len(loadGitUsers(stored)) <= MaxUsers
  /\ NoDuplicates(loadGitUsers(stored))

\* a profile typed by the user has been inserted into a full list
C1_Witness ==
  /\ Len(gitUsers) = MaxUsers
  /\ gitUsers[1].name \in {NameA, NamePadded}
  /\ stored = Record(gitUsers)

\* C2: an apply of (name, email, r2) that completes while a profile with the
\* same (name, email) is stored leaves the list and the persisted record as
\* they were: the stored entry keeps its registry and nothing is added.
C2_DuplicateApplyNoChange ==
  [][\A i \in Slots :
       (ApplyDone(i) /\ hasUser(gitUsers, tasks[i].name, tasks[i].email))
         => (gitUsers' = gitUsers /\ stored' = stored)]_vars

\* an apply has just completed whose registry differs from the one stored
\* for its (name, email)
C2_Witness ==
  \E i \in Slots :
    /\ JustApplied(i)
    /\ hasUser(gitUsers, tasks[i].name, tasks[i].email)
    /\ findUser(gitUsers, tasks[i].name, tasks[i].email).registry
         /= tasks[i].registry
    /\ Cardinality({k \in 1..Len(gitUsers) :
                      SameUser(gitUsers[k], tasks[i].name, tasks[i].email)}) = 1

\* the position of (n, e) in users, 0 when absent
IndexOf(users, n, e) ==
  IF hasUser(users, n, e)
    THEN CHOOSE k \in 1..Len(users) :
           /\ SameUser(users[k], n, e)
           /\ \A j \in 1..(k - 1) : ~SameUser(users[j], n, e)
    ELSE 0

\* C3 as stated: when an apply of (name, email) completes, that profile is
\* the first entry of the list, whether newly inserted or already stored.
C3_Original ==
  [][\A i \in Slots :
       ApplyDone(i) => IndexOf(gitUsers', tasks[i].name, tasks[i].email) = 1]_vars

\* C3 as amended: when an apply of (name, email) completes, a profile that
\* was not stored is the first entry of the list; a profile that was already
\* stored keeps the position it had and is not moved to the front.
C3_FrontOnlyWhenInserted ==
  [][\A i \in Slots :
       ApplyDone(i) =>
         IF hasUser(gitUsers, tasks[i].name, tasks[i].email)
           THEN IndexOf(gitUsers', tasks[i].name, tasks[i].email)
                  = IndexOf(gitUsers, tasks[i].name, tasks[i].email)
           ELSE gitUsers'[1] =
                  Profile(tasks[i].name, tasks[i].email, tasks[i].registry)]_vars

\* a stored profile that is not the first entry has just been re-applied
C3_Witness ==
  \E i \in Slots :
    /\ JustApplied(i)
    /\ IndexOf(gitUsers, tasks[i].name, tasks[i].email) > 1

\* C4: an apply of a new (name, email) that completes while the list holds
\* 10 profiles leaves exactly 10: the new profile, then the former first 9
\* in their order; only the former last entry is gone.
C4_EvictsOldest ==
  [][\A i \in Slots :
       (/\ ApplyDone(i)
        /\ Len(gitUsers) = MaxUsers
        /\ ~hasUser(gitUsers, tasks[i].name, tasks[i].email))
         => /\ Len(gitUsers') = MaxUsers
            /\ gitUsers'[1] =
                 Profile(tasks[i].name, tasks[i].email, tasks[i].registry)
            /\ \A k \in 1..(MaxUsers - 1) : gitUsers'[k + 1] = gitUsers[k]]_vars

\* a new profile has just been applied to the full list of the earlier
\* session, whose last entry is gone
C4_Witness ==
  \E i \in Slots :
    /\ JustApplied(i)
    /\ Len(gitUsers) = MaxUsers
    /\ gitUsers[1] = Profile(tasks[i].name, tasks[i].email, tasks[i].registry)
    /\ \A k \in 1..(MaxUsers - 1) : gitUsers[k + 1] = FullList[k]
    /\ ~hasUser(gitUsers, FullList[MaxUsers].name, FullList[MaxUsers].email)

\* the entries of users that do not match (n, e), in their order
Others(users, n, e) ==
  LET keep == {k \in 1..Len(users) : ~SameUser(users[k], n, e)}
      nth(j) == CHOOSE k \in keep : Cardinality({m \in keep : m <= k}) = j
  IN [j \in 1..Cardinality(keep) |-> users[nth(j)]]

\* the step deletes a profile: the delete handler showed its message
Deletes == message'.kind = "deleted"

C6_PersistedMatchesMemory ==
  (contextRef /\ AllIdle) =>
     /\ loadGitUsers(stored) = gitUsers
     /\ loadGitUsers(Record(loadGitUsers(stored))) = loadGitUsers(stored)

\* no handler is suspended after a profile with a registry was added to the
\* full list and written back: the record, which holds entries with and
\* without a registry, loads to the list in memory
C6_Witness ==
  /\ contextRef
  /\ AllIdle
  /\ stored.present
  /\ Len(gitUsers) = MaxUsers
  /\ gitUsers[1].name = NameA
  /\ gitUsers[1].registry = AliasReg
  /\ gitUsers[4].registry = Undefined
  /\ "registry" \in DOMAIN stored.value[1]
  /\ "registry" \notin DOMAIN stored.value[4]

\* the values the handlers can change outside the picker and the status bar
Effects == <<gitUsers, stored, gitName, gitEmail, npmRegistry>>

\* C7: an add flow whose (name, email) is stored when the last prompt
\* returns shows the duplicate warning and goes no further: no set command
\* is started, and the list, the record and the external settings stay.
C7_DuplicateAddRejected ==
  [][\A i \in Slots :
       (/\ tasks[i].pc = "p_reg"
        /\ tasks'[i].pc /= "p_reg"
        /\ hasUser(gitUsers, tasks[i].name, tasks[i].email))
         => /\ tasks'[i].pc = "q_name"
            /\ message' = Message("exists", tasks[i].name, tasks[i].email,
                                  Undefined)
            /\ UNCHANGED Effects]_vars

\* the duplicate warning has just been shown for a stored profile, and the
\* flow that showed it is on its way to the status bar
C7_Witness ==
  /\ message.kind = "exists"
  /\ hasUser(gitUsers, message.name, message.email)
  /\ \E i \in Slots :
       /\ tasks[i].kind \in {"add", "configure"}
       /\ tasks[i].pc = "q_name"
       /\ SameUser(tasks[i], message.name, message.email)

\* C8: when the name prompt or the email prompt returns nothing, the add
\* flow ends there: no set command is started, no message is shown, and the
\* list, the record and the external settings stay.
C8_CancelNoEffect ==
  [][\A i \in Slots :
       (/\ tasks[i].pc \in {"p_name", "p_email"}
        /\ tasks'[i].pc /= tasks[i].pc
        /\ (IF tasks[i].pc = "p_name" THEN tasks'[i].name ELSE tasks'[i].email)
             \in {Empty, Undefined})
         => /\ tasks'[i].pc = "q_name"
            /\ message' = NoMessage
            /\ UNCHANGED Effects]_vars

\* an add flow has ended at its email prompt, after a name was given
C8_Witness ==
  \E i \in Slots :
    /\ tasks[i].kind \in {"add", "configure"}
    /\ tasks[i].pc = "q_name"
    /\ tasks[i].name = NameA
    /\ tasks[i].email = Empty
    /\ message = NoMessage
    /\ ~hasUser(gitUsers, NameA, EmailA)

\* C9: whichever of its set commands fail, an apply goes on from command to
\* command and leaves setGitUserInfo only through the store block and the
\* "switched" message: its profile is then stored; it never stops elsewhere.
C9_NoRollback ==
  [][\A i \in Slots :
       tasks[i].pc \in ApplyPcs =>
         \/ tasks'[i].pc \in ApplyPcs
         \/ /\ tasks'[i].pc = "q_name"
            /\ hasUser(gitUsers', tasks[i].name, tasks[i].email)
            /\ message' = SwitchedMessage(tasks[i])]_vars

\* on a fresh installation an apply with a registry has just completed
\* although all three of its commands failed: git and npm are as they were,
\* the profile is stored and the message was shown
C9_Witness ==
  \E i \in Slots :
    /\ JustApplied(i)
    /\ Truthy(tasks[i].registry)
    /\ gitName = Empty
    /\ gitEmail = Empty
    /\ npmRegistry = DefaultReg
    /\ gitUsers = <<Profile(tasks[i].name, tasks[i].email, tasks[i].registry)>>

\* what queryActive returns for the identity git holds now
ActiveNow == [name |-> ConfigGet(gitName), email |-> ConfigGet(gitEmail)]

\* C10: with every command succeeding and no overlapping action, right
\* after apply(name, email, registry) completes queryActive returns that name
\* and that email, and the applied profile is marked current.
C10_ActiveIsApplied ==
  \A i \in Slots :
    JustApplied(i) =>
      /\ ActiveNow.name = tasks[i].name
      /\ ActiveNow.email = tasks[i].email
      /\ isCurrent(findUser(gitUsers, tasks[i].name, tasks[i].email), ActiveNow)

\* C12: a row of the picker is marked current iff its profile's name and
\* email both equal the active name and email the picker was built for,
\* whatever registry the profile stores and whatever the live registry is;
\* exactly the rows that are not current carry the delete button.
C12_CurrentByNameAndEmail ==
  quickPick.open =>
    \A k \in 1..Len(quickPick.items) :
      LET row == quickPick.items[k] IN
      /\ row.picked <=> (/\ row.user.name = quickPick.user.name
                         /\ row.user.email = quickPick.user.email)
      /\ row.buttons = IF row.picked THEN {} ELSE {"delete"}

\* the picker shows a current row whose stored registry is not the live
\* registry, and a row with the same kind of registry that is not current
C12_Witness ==
  /\ quickPick.open
  /\ \E k \in 1..Len(quickPick.items) :
       /\ quickPick.items[k].picked
       /\ Truthy(quickPick.items[k].user.registry)
       /\ quickPick.items[k].user.registry /= ConfigGet(npmRegistry)
  /\ \E k \in 1..Len(quickPick.items) :
       /\ ~quickPick.items[k].picked
       /\ Truthy(quickPick.items[k].user.registry)

\* handler i's pending command calls back in this step
Completes(i, pc) == tasks[i].pc = pc /\ tasks'[i].pc /= pc

\* C13: within one apply the set-email command is started only when the
\* set-name command has called back, the registry command (only for a
\* registry that is given) only when set-email has called back, and the
\* store block and the confirmation only when the last command of that
\* apply has called back; each setting changes only as its own command
\* completes.
C13_FixedOrder ==
  [][/\ \A i \in Slots :
          /\ Completes(i, "s_name") => tasks'[i].pc = "s_email"
          /\ Completes(i, "s_email") =>
               IF Truthy(tasks[i].registry)
                 THEN tasks'[i].pc = "s_reg" /\ UNCHANGED <<gitUsers, stored>>
                 ELSE ApplyDone(i)
          /\ Completes(i, "s_reg") => ApplyDone(i) /\ Truthy(tasks[i].registry)
          /\ (tasks'[i].pc = "s_email" /\ tasks[i].pc /= "s_email")
               => tasks[i].pc = "s_name"
          /\ (tasks'[i].pc = "s_reg" /\ tasks[i].pc /= "s_reg")
               => tasks[i].pc = "s_email"
     /\ (message'.kind = "switched" \/ (stored' /= stored /\ ~Deletes))
          => \E i \in Slots :
               /\ ApplyDone(i)
               /\ message' = SwitchedMessage(tasks[i])
               /\ tasks[i].pc = IF Truthy(tasks[i].registry)
                                  THEN "s_reg" ELSE "s_email"
     /\ gitName' /= gitName => \E i \in Slots : Completes(i, "s_name")
     /\ gitEmail' /= gitEmail => \E i \in Slots : Completes(i, "s_email")
     /\ npmRegistry' /= npmRegistry => \E i \in Slots : Completes(i, "s_reg")]_vars

\* an apply with a registry has just completed and its three commands took
\* effect: name, email and registry are the applied ones, the profile is
\* stored and the confirmation was shown
C13_Witness ==
  \E i \in Slots :
    /\ JustApplied(i)
    /\ Truthy(tasks[i].registry)
    /\ gitName = tasks[i].name
    /\ gitEmail = tasks[i].email
    /\ npmRegistry = AliasTarget
    /\ stored = Record(gitUsers)
    /\ gitUsers[1] = Profile(tasks[i].name, tasks[i].email, tasks[i].registry)

\* the registry text starts with http:// or https://
HasUrlPrefix(r) ==
  \/ StartsWith(r, <<"h", "t", "t", "p", ":", "/", "/">>)
  \/ StartsWith(r, <<"h", "t", "t", "p", "s", ":", "/", "/">>)

\* the same, with at least one character that is no line break after the
\* two slashes
HasUrlPrefixAndMore(r) ==
  \/ /\ StartsWith(r, <<"h", "t", "t", "p", ":", "/", "/">>)
     /\ Len(r) >= 8 /\ r[8] /= "\n"
  \/ /\ StartsWith(r, <<"h", "t", "t", "p", "s", ":", "/", "/">>)
     /\ Len(r) >= 9 /\ r[9] /= "\n"

\* what an apply does about its registry, the direct command being chosen
\* by IsDirect: none for an absent or empty registry; otherwise one command,
\* issued when set-email has called back and followed by the store block
RegistryCommandBy(IsDirect(_)) ==
  /\ \A i \in Slots :
       /\ Completes(i, "s_email") =>
            IF ~Truthy(tasks[i].registry)
              THEN /\ ApplyDone(i)
                   /\ tasks'[i].cmd = "none"
                   /\ npmRegistry' = npmRegistry
              ELSE /\ tasks'[i].pc = "s_reg"
                   /\ tasks'[i].cmd = IF IsDirect(tasks[i].registry)
                                        THEN "npm config set registry"
                                        ELSE "nrm use"
       /\ Completes(i, "s_reg") =>
            /\ ApplyDone(i)
            /\ tasks'[i].cmd = tasks[i].cmd
            /\ npmRegistry' \in
                 {npmRegistry,
                  IF tasks[i].cmd = "npm config set registry"
                    THEN tasks[i].registry ELSE AliasTarget}
  /\ npmRegistry' /= npmRegistry => \E i \in Slots : Completes(i, "s_reg")

\* C14 as stated: no registry command for an absent or empty registry;
\* otherwise exactly one, the direct "set registry URL" command iff the
\* value starts with http:// or https://, the alias switch for every other.
C14_Original == [][RegistryCommandBy(HasUrlPrefix)]_vars

\* C14 as amended: the direct command iff the value starts with http:// or
\* https:// and at least one more character (not a line break) follows; a
\* bare "http://" or "https://" goes to the alias switch like every other.
C14_DirectIffUrl == [][RegistryCommandBy(HasUrlPrefixAndMore)]_vars

\* an apply whose registry is the bare scheme has just completed: it issued
\* the alias switch
C14_Witness ==
  \E i \in Slots :
    /\ JustApplied(i)
    /\ tasks[i].registry = SchemeOnly
    /\ tasks[i].cmd = "nrm use"

(* ------------------------ one picker at work -------------------------- *)
\* The picker alone: it is opened, rows are accepted and deleted, and every
\* command succeeds; at most MaxPickerOps such events are taken.
NextPicker ==
  \/ Activate
  \/ ops < MaxPickerOps /\ OpenProject
  \/ \E k \in PickRows : ops < MaxPickerOps /\ PickerDelete(k)
  \/ \E k \in PickRows : ops < MaxPickerOps /\ PickerAccept(k)
  \/ \E i \in Slots : SetName(i, {TRUE})
  \/ \E i \in Slots : SetEmail(i, {TRUE})
  \/ \E i \in Slots : SetRegistry(i, {TRUE})
  \/ \E i \in Slots : QueryName(i)
  \/ \E i \in Slots : QueryEmail(i)
  \/ \E i \in Slots : ShowPicker(i)
  \/ \E i \in Slots : UpdateStatusBar(i)

SpecPicker == Init /\ [][NextPicker]_vars

\* C15: the delete action never removes the profile that matches the active
\* identity: no delete step, also one taken while a switch started from the
\* same picker is in progress or has just completed, removes a stored
\* profile whose (name, email) is the live active (name, email).
C15_ActiveNeverDeleted ==
  [][Deletes =>
       ~(/\ hasUser(gitUsers, message'.name, message'.email)
         /\ message'.name = ActiveNow.name
         /\ message'.email = ActiveNow.email)]_vars

\* handler i is a switch that has left setGitUserInfo and not gone further
Switched(i) == tasks[i].kind = "accept" /\ tasks[i].pc = "q_name"

\* C16: when two switches overlap and every command succeeds, then once
\* both have completed git's (name, email) is the (name, email) of one of
\* the two applied profiles, never the name of one with the email of the
\* other.
C16_NoMixedIdentity ==
  \A i, j \in Slots :
    (i /= j /\ Switched(i) /\ Switched(j)) =>
      \/ gitName = tasks[i].name /\ gitEmail = tasks[i].email
      \/ gitName = tasks[j].name /\ gitEmail = tasks[j].email

\* the text updateStatusBar would compose now
StatusNow ==
  [name |-> ActiveNow.name,
   registry |-> registryDisplay(gitUsers, ActiveNow, ConfigGet(npmRegistry))]

\* C17: the status indicator is recomputed after every mutating action and
\* at startup, so that whenever the extension is active and no action is in
\* progress its text shows the live active name and the effective registry
\* computed from the current store and the live registry.
C17_StatusShowsLive == (Registered /\ AllIdle) => statusBar = StatusNow

\* handler i, inside updateStatusBar, writes the status text in this step
WritesStatus(i) ==
  /\ tasks[i].pc = "q_reg"
  /\ tasks[i].kind /= "open"
  /\ tasks'[i].pc = "idle"

\* C18: the status text is composed from what updateStatusBar queried: the
\* name shown is the queried active name; the registry shown is the stored
\* profile's registry when the queried (name, email) matches a stored
\* profile with a non-empty registry, and the queried live registry
\* otherwise.  The text changes in no other step while the extension runs.
C18_StatusComposition ==
  [][/\ \A i \in Slots :
          WritesStatus(i) =>
            LET match == {k \in 1..Len(gitUsers) :
                            /\ gitUsers[k].name = tasks[i].qname
                            /\ gitUsers[k].email = tasks[i].qemail
                            /\ gitUsers[k].registry \notin {Empty, Undefined}}
            IN /\ statusBar'.name = tasks[i].qname
               /\ IF match /= {}
                    THEN \E k \in match : statusBar'.registry = gitUsers[k].registry
                    ELSE statusBar'.registry = ConfigGet(npmRegistry)
     /\ (statusBar' /= statusBar /\ contextRef')
          => \E i \in Slots : WritesStatus(i)]_vars

\* no action is in progress and the status shows the active name with the
\* registry stored for it, which is not the live registry
C18_Witness ==
  /\ Registered
  /\ AllIdle
  /\ statusBar.name = ActiveNow.name
  /\ hasUser(gitUsers, ActiveNow.name, ActiveNow.email)
  /\ statusBar.registry = findUser(gitUsers, ActiveNow.name, ActiveNow.email).registry
  /\ statusBar.registry /= ConfigGet(npmRegistry)

\* the refresh handler i starts or moves on in this step
RefreshStep(i) ==
  \/ tasks[i].kind /= "refresh" /\ tasks'[i].kind = "refresh"
  \/ tasks[i].kind = "refresh" /\ tasks'[i].pc /= tasks[i].pc

\* C19: the refresh action performs no mutation: its handler is only ever
\* suspended on query commands, never on a set-name, set-email or registry
\* command, and its steps leave the in-memory list, the persisted record and
\* the external settings unchanged.
C19_RefreshOnlyQueries ==
  [][\A i \in Slots :
       /\ RefreshStep(i) => UNCHANGED Effects
       /\ tasks'[i].kind = "refresh" => tasks'[i].pc \in QueryPcs]_vars

\* a refresh of the picker has just completed on the earlier session's
\* list: the picker is hidden, the message was shown, and list and record
\* are as they were loaded
C19_Witness ==
  /\ message.kind = "refreshed"
  /\ ~quickPick.open
  /\ gitUsers = FullList
  /\ stored = Record(FullList)
  /\ statusBar = StatusNow

(* ------------------- load over any persisted value -------------------- *)
\* the objects a persisted array may hold: profiles with and without a
\* registry, objects that lack name or email, and a value without properties
StoredElements ==
  {[name |-> NameA, email |-> EmailA],
   [name |-> NameA, email |-> EmailA, registry |-> AliasReg],
   [name |-> NameA],
   [email |-> EmailA],
   <<>>}

RECURSIVE SeqsUpTo(_, _)
SeqsUpTo(S, n) ==
  IF n = 0 THEN {<<>>}
  ELSE LET shorter == SeqsUpTo(S, n - 1)
       IN shorter \cup {Append(q, x) : q \in {t \in shorter : Len(t) = n - 1},
                                       x \in S}

\* values the key may hold when the extension starts: nothing, a value that
\* is not an array (without and with a length), and arrays
PersistedValues ==
  {NoRecord}
    \cup {[present |-> TRUE, array |-> a, value |-> v] :
            a \in BOOLEAN, v \in SeqsUpTo(StoredElements, MaxStored)}

InitLoad ==
  /\ gitUsers = <<>>
  /\ contextRef = FALSE
  /\ stored \in PersistedValues
  /\ \/ gitName = Empty /\ gitEmail = Empty
     \/ gitName = NameA /\ gitEmail = EmailA
  /\ npmRegistry = DefaultReg
  /\ statusBar = [name |-> Empty, registry |-> Empty]
  /\ quickPick = HiddenPick
  /\ tasks = [i \in Slots |-> IdleTask]
  /\ message = NoMessage
  /\ ops = 0

\* activate alone: loadGitUsers, then the first updateStatusBar
NextLoad ==
  \/ Activate
  \/ \E i \in Slots : QueryName(i)
  \/ \E i \in Slots : QueryEmail(i)
  \/ \E i \in Slots : UpdateStatusBar(i)

SpecLoad == InitLoad /\ [][NextLoad]_vars

\* every element is an object carrying name and email
WellFormedElements(value) ==
  \A k \in 1..Len(value) : {"name", "email"} \subseteq DOMAIN value[k]

WellFormed(st) ==
  st.present /\ st.array /\ Len(st.value) > 0 /\ WellFormedElements(st.value)

\* C11: load returns the persisted list only if it is present, non-empty and
\* well-formed (every element an object carrying name and email); for an
\* absent, empty or malformed persisted value it returns the empty list.
C11_LoadOnlyWellFormed ==
  contextRef =>
    IF WellFormed(stored)
      THEN gitUsers = [k \in 1..Len(stored.value) |-> fromStored(stored.value[k])]
      ELSE gitUsers = <<>>

\* the part of C11 the code keeps: the empty list for an absent value, for a
\* value that is not an array and for an empty array, and the list itself
\* for a well-formed one
C11_LoadChecksArrayOnly ==
  contextRef =>
    /\ (~stored.present \/ ~stored.array \/ stored.value = <<>>) => gitUsers = <<>>
    /\ WellFormed(stored) =>
         gitUsers = [k \in 1..Len(stored.value) |-> fromStored(stored.value[k])]
====
